---- MODULE Spec2Model ----
(***************************************************************************)
(* Model of the Xray process supervisor (RestartXray / StopXray / the      *)
(* background monitor), the restart flag, the configuration synthesizer    *)
(* (GetXrayConfig) with its client filter, the stats collector             *)
(* (GetXrayTraffic) and the registration client (WarpService).  Two        *)
(* revisions of the service file are in the source tree:                   *)
(* src/unnamed/part_000 (no monitor, stop errors abort a restart,          *)
(* filterActiveClients, Warp outbound) and src/unnamed/part_001 (monitor   *)
(* goroutine, shared stop channel, in-place client removal loop).  The     *)
(* variable `variant` selects the revision a behaviour runs; warpSvc.rev   *)
(* selects the revision of src/web/service/warp.go.                        *)
(***************************************************************************)
EXTENDS Integers, Sequences, FiniteSets, TLC

\* ------------------------------------------------------------------ bounds
\* Number of monitor goroutines that may be alive at once.
MaxMonitors == 2

\* Names of process handles, reused in turn: xray.NewProcess returns a handle
\* that differs from the one it replaces.
NoHandle == "nil"
Handles == {"h1", "h2"}
NewHandle(old) == IF old = "h1" THEN "h2" ELSE "h1"

Variants == {"part_000", "part_001"}
\* Concurrent callers of the service: a request handler, which may call
\* RestartXray(true), RestartXray(false) and StopXray, and the periodic
\* poller, which calls RestartXray(false).
Handler == <<"handler", 1>>
Poller == <<"poller", 1>>
Callers == {Handler, Poller}
Monitors == {<<"mon", i>> : i \in 1..MaxMonitors}
Threads == Callers \cup Monitors
NoThread == <<"none", 0>>

VARIABLES
    variant,    \* which revision of the service file runs
    p,          \* package variable p: NoHandle (nil) or a handle
    pState,     \* state of the process p points to
    pConfig,    \* configuration the process p points to was built with
    orphans,    \* TRUE when the child of some discarded handle still runs
    lock,       \* package variable lock (sync.Mutex): holder or NoThread
    stopChan,   \* XrayService.stopChan: "open" or "closed"
    store,      \* settings / inbound store read by GetXrayConfig
    pc,         \* position of every thread
    force,      \* isForce argument of the running RestartXray call (cleared
                \* once the call no longer reads it)
    xrayConfig, \* local xrayConfig of the running RestartXray call
    ret,        \* what the request handler's last call returned: "nil", an
                \* error ("err_config", "err_stop", "err_start",
                \* "err_not_running"), "panic", or "nil_unchanged" for the nil
                \* RestartXray returns after logging "configuration unchanged";
                \* "none" during a call
    stopOK,     \* history: some StopXray call that signaled stopChan has returned nil
    \* --- restart flag
    isNeedXrayRestart, \* package variable isNeedXrayRestart (atomic.Bool)
    marks,      \* history: number of SetToNeedRestart calls completed
    consumed,   \* history: number of IsNeedRestartAndSetFalse calls that returned true
    flagOps,    \* history: number of flag operations completed
    lastConsume,\* what the last IsNeedRestartAndSetFalse returned, or "none"
    \* --- client filter
    clients,    \* settings["clients"] of the rule: the input client list
    clientStats,\* inbound.ClientStats of the rule
    filtered,   \* result of the filter: [ok, out], ok = FALSE for a panic
    filterPc,   \* "input" before the filter ran, "done" after
    synth,      \* configuration synthesis: rules, the listing GetAllInbounds
                \* returns; out, what GetXrayConfig returned; pc, "input"
                \* before it ran, "done" after
    \* --- stats collector
    traffic,    \* xrayAPI: XrayService.xrayAPI, "closed" or "open" after Init;
                \* rpcs: whether the last GetXrayTraffic call issued GetTraffic;
                \* ret: what the last GetXrayTraffic call returned, or "none";
                \* outbound: the OutboundTraffics table (tag -> up, down,
                \* total) with the position of OutboundService.AddTraffic
                \* (pc), its argument (traffics) and the last result (last)
    \* --- registration client (WarpService)
    warpSvc,    \* the WarpService: rev, which revision of warp.go runs, and
                \* its field maxRetries
    warp,       \* the "warp" setting of the settings store
    wCall,      \* the running or last operation: op, its name and argument;
                \* pc, the position inside it; resp, the response doWithRetry
                \* returned or NoResp; cancelled, whether the context of the
                \* request that got resp is cancelled; result, what the
                \* operation returned
    retry       \* doWithRetry: i, its loop variable; lastErr, its local err
                \* (0 for nil, else the failed attempt's number); ctxLeft, the
                \* milliseconds left to the deadline of req.Context(), or
                \* NoDeadline; history:
                \* attempts, the client.Do calls made; backoff and jitter, the
                \* two parts of the last time.Sleep argument

supVars == <<variant, p, pState, pConfig, orphans, lock, stopChan, store, pc, force,
             xrayConfig, ret, stopOK>>
flagVars == <<isNeedXrayRestart, marks, consumed, flagOps, lastConsume>>
filterVars == <<clients, clientStats, filtered, filterPc, synth>>
trafficVars == <<traffic>>
warpVars == <<warpSvc, warp, wCall, retry>>
vars == <<supVars, flagVars, filterVars, trafficVars, warpVars>>

\* ------------------------------------------------------- configuration
NoConfig == [inbounds |-> <<"-">>]
\* Store contents: a template that parses with the rule enabled or disabled,
\* and a template that does not parse (the rules are then never read).
Stores == {[template |-> "ok", ruleEnable |-> TRUE],
           [template |-> "ok", ruleEnable |-> FALSE],
           [template |-> "bad", ruleEnable |-> TRUE]}

\* A GetXrayConfig that drops the template error.
GetXrayConfigErrorDropped(s) ==
    [err |-> FALSE, config |-> [inbounds |-> IF s.ruleEnable THEN <<"R1">> ELSE <<>>]]

\* GetXrayConfig: a template that does not parse is an error; otherwise one
\* inbound entry per enabled rule.
GetXrayConfig(s) ==
    IF s.template = "bad"
    THEN [err |-> TRUE, config |-> NoConfig]
    ELSE [err |-> FALSE,
          config |-> [inbounds |-> IF s.ruleEnable THEN <<"R1">> ELSE <<>>]]

\* xray.Config.Equals: structural equality of two configurations.
ConfigEquals(a, b) == a = b

\* ------------------------------------------------------------- process
\* p != nil && p.IsRunning()
IsXrayRunning == p # NoHandle /\ pState = "running"

\* p.Stop(): ok terminates the child; on an error the child keeps running.
StopOutcomes == {"ok", "fail"}
ProcStop(st, outcome) == IF outcome = "ok" THEN "stopped" ELSE st

\* p.GetErr(): the last error of the handle: the exit error of a process that
\* died on its own, the start error of one that failed to start, else nil.
ProcGetErr(st) ==
    IF st = "crashed" THEN "exit_err" ELSE IF st = "failed" THEN "start_err" ELSE "nil"

\* A GetXrayErr that never reads the handle.
GetXrayErrDropped == "nil"

\* if p == nil { return nil }; return p.GetErr()
GetXrayErr == IF p = NoHandle THEN "nil" ELSE ProcGetErr(pState)

SupZero ==
    /\ variant \in Variants
    /\ p = NoHandle
    /\ pState = "nil"
    /\ pConfig = NoConfig
    /\ orphans = FALSE
    /\ lock = NoThread
    /\ stopChan = "open"
    /\ pc = [t \in Threads |-> IF t \in Callers THEN "idle" ELSE "off"]
    /\ force = [t \in Threads |-> FALSE]
    /\ xrayConfig = [t \in Threads |-> NoConfig]
    /\ ret = "none"
    /\ stopOK = FALSE
SupInit == SupZero /\ store \in {s \in Stores : s.template = "ok"}

\* A call returns: release the lock (deferred Unlock), forget the locals.
\* A monitor goes back to its loop, a caller becomes idle; the request
\* handler's result is recorded.
Return(t, r) ==
    /\ lock' = NoThread
    /\ pc' = [pc EXCEPT ![t] = IF t \in Monitors THEN "m_select" ELSE "idle"]
    /\ force' = [force EXCEPT ![t] = FALSE]
    /\ xrayConfig' = [xrayConfig EXCEPT ![t] = NoConfig]
    /\ ret' = IF t = Handler THEN r ELSE ret

\* -------------------------------------------------------- RestartXray
CallRestart(t, f) ==
    /\ UNCHANGED <<flagVars, filterVars, trafficVars, warpVars>>
    /\ t \in Callers /\ pc[t] = "idle"
    /\ t = Poller => ~f
    /\ pc' = [pc EXCEPT ![t] = "r_lock"]
    /\ force' = [force EXCEPT ![t] = f]
    /\ ret' = IF t = Handler THEN "none" ELSE ret
    /\ UNCHANGED <<variant, p, pState, pConfig, orphans, lock, stopChan, store, xrayConfig, stopOK>>

\* lock.Lock(); defer lock.Unlock()
\* xrayConfig, err := s.GetXrayConfig(); if err != nil { return err }
RestartEnter(t) ==
    /\ UNCHANGED <<flagVars, filterVars, trafficVars, warpVars>>
    /\ pc[t] = "r_lock"
    /\ lock = NoThread
    /\ LET g == GetXrayConfig(store) IN
       IF g.err
       THEN /\ Return(t, "err_config")
            /\ UNCHANGED <<variant, p, pState, pConfig, orphans, stopChan, store, stopOK>>
       ELSE /\ lock' = t
            /\ xrayConfig' = [xrayConfig EXCEPT ![t] = g.config]
            /\ pc' = [pc EXCEPT ![t] = "r_check"]
            /\ UNCHANGED <<variant, p, pState, pConfig, orphans, stopChan, store, force, ret, stopOK>>

\* The no-op test with the force flag inverted.
RestartIsNoopForceInverted(t) ==
    IsXrayRunning /\ force[t] /\ ConfigEquals(pConfig, xrayConfig[t])

\* The diff-based no-op test of RestartXray:
\* s.IsXrayRunning() && !isForce && p.GetConfig().Equals(xrayConfig)
RestartIsNoop(t) ==
    IsXrayRunning /\ ~force[t] /\ ConfigEquals(pConfig, xrayConfig[t])

\* if s.IsXrayRunning() { if !isForce && equal { return nil }; err := p.Stop() ... }
\* part_000 returns the stop error; part_001 logs it and goes on.
RestartCheck(t, o) ==
    /\ UNCHANGED <<flagVars, filterVars, trafficVars, warpVars>>
    /\ pc[t] = "r_check"
    /\ IF ~IsXrayRunning
       THEN /\ pc' = [pc EXCEPT ![t] = "r_start"]
            /\ force' = [force EXCEPT ![t] = FALSE]
            /\ UNCHANGED <<variant, p, pState, pConfig, orphans, lock, stopChan, store, xrayConfig, ret, stopOK>>
       ELSE IF RestartIsNoop(t)
       THEN /\ Return(t, "nil_unchanged")
            /\ UNCHANGED <<variant, p, pState, pConfig, orphans, stopChan, store, stopOK>>
       ELSE /\ pState' = ProcStop(pState, o)
            /\ IF o = "fail" /\ variant = "part_000"
               THEN /\ Return(t, "err_stop")
               ELSE /\ pc' = [pc EXCEPT ![t] = "r_start"]
                    /\ force' = [force EXCEPT ![t] = FALSE]
                    /\ UNCHANGED <<lock, xrayConfig, ret>>
            /\ UNCHANGED <<variant, p, pConfig, orphans, stopChan, store, stopOK>>

FreeMonitors == {m \in Monitors : pc[m] = "off"}

\* go s.monitorXrayProcess() (part_001 only): a new goroutine.
SpawnMonitor(t) ==
    IF variant = "part_001"
    THEN \E m \in FreeMonitors :
            /\ m = CHOOSE x \in FreeMonitors : \A y \in FreeMonitors : x[2] <= y[2]
            /\ lock' = NoThread
            /\ pc' = [pc EXCEPT ![t] = IF t \in Monitors THEN "m_select" ELSE "idle",
                                ![m] = "m_select"]
    ELSE /\ lock' = NoThread
         /\ pc' = [pc EXCEPT ![t] = IF t \in Monitors THEN "m_select" ELSE "idle"]

\* p = xray.NewProcess(xrayConfig); result = ""; err = p.Start();
\* on an error return it, else spawn the monitor (part_001) and return nil.
RestartStart(t, startOK) ==
    /\ UNCHANGED <<flagVars, filterVars, trafficVars, warpVars>>
    /\ pc[t] = "r_start"
    /\ LET i == NewHandle(p) IN
       /\ p' = i
       /\ orphans' = (orphans \/ IsXrayRunning)
       /\ pState' = IF startOK THEN "running" ELSE "failed"
       /\ pConfig' = xrayConfig[t]
       /\ IF startOK
          THEN /\ SpawnMonitor(t)
               /\ force' = [force EXCEPT ![t] = FALSE]
               /\ xrayConfig' = [xrayConfig EXCEPT ![t] = NoConfig]
               /\ ret' = IF t = Handler THEN "nil" ELSE ret
          ELSE Return(t, "err_start")
    /\ UNCHANGED <<variant, stopChan, store, stopOK>>

\* ----------------------------------------------------------- StopXray
CallStop(t) ==
    /\ UNCHANGED <<flagVars, filterVars, trafficVars, warpVars>>
    /\ t = Handler /\ pc[t] = "idle"
    /\ pc' = [pc EXCEPT ![t] = "s_lock"]
    /\ ret' = "none"
    /\ UNCHANGED <<variant, p, pState, pConfig, orphans, lock, stopChan, store, force, xrayConfig, stopOK>>

\* A StopXray that forgets the mutex.
StopLockNoMutex(t) ==
    /\ UNCHANGED <<flagVars, filterVars, trafficVars, warpVars>>
    /\ pc[t] = "s_lock"
    /\ lock' = t
    /\ pc' = [pc EXCEPT ![t] = "s_body"]
    /\ UNCHANGED <<variant, p, pState, pConfig, orphans, stopChan, store, force, xrayConfig, ret, stopOK>>

\* lock.Lock(); defer lock.Unlock()
StopLock(t) ==
    /\ UNCHANGED <<flagVars, filterVars, trafficVars, warpVars>>
    /\ pc[t] = "s_lock"
    /\ lock = NoThread
    /\ lock' = t
    /\ pc' = [pc EXCEPT ![t] = "s_body"]
    /\ UNCHANGED <<variant, p, pState, pConfig, orphans, stopChan, store, force, xrayConfig, ret, stopOK>>

\* if s.IsXrayRunning() { close(s.stopChan) (part_001); return p.Stop() }
\* return errors.New("xray is not running")
\* close of a closed channel panics; the deferred Unlock still runs.
StopBody(t, o) ==
    /\ UNCHANGED <<flagVars, filterVars, trafficVars, warpVars>>
    /\ pc[t] = "s_body"
    /\ IF ~IsXrayRunning
       THEN /\ Return(t, "err_not_running")
            /\ UNCHANGED <<variant, p, pState, pConfig, orphans, stopChan, store, stopOK>>
       ELSE IF variant = "part_001" /\ stopChan = "closed"
       THEN /\ Return(t, "panic")
            /\ UNCHANGED <<variant, p, pState, pConfig, orphans, stopChan, store, stopOK>>
       ELSE /\ stopChan' = IF variant = "part_001" THEN "closed" ELSE stopChan
            /\ pState' = ProcStop(pState, o)
            /\ Return(t, IF o = "ok" THEN "nil" ELSE "err_stop")
            /\ stopOK' = (stopOK \/ (variant = "part_001" /\ o = "ok"))
            /\ UNCHANGED <<variant, p, pConfig, orphans, store>>

\* -------------------------------------------------- monitorXrayProcess
\* select { case <-s.stopChan: return; default: ... }
MonitorSelect(m) ==
    /\ UNCHANGED <<flagVars, filterVars, trafficVars, warpVars>>
    /\ m \in Monitors /\ pc[m] = "m_select"
    /\ IF stopChan = "closed"
       THEN pc' = [pc EXCEPT ![m] = "off"]
       ELSE pc' = [pc EXCEPT ![m] = "m_check"]
    /\ UNCHANGED <<variant, p, pState, pConfig, orphans, lock, stopChan, store, force, xrayConfig, ret, stopOK>>

\* if !s.IsXrayRunning() { s.RestartXray(true) }; time.Sleep(...)
MonitorCheck(m) ==
    /\ UNCHANGED <<flagVars, filterVars, trafficVars, warpVars>>
    /\ m \in Monitors /\ pc[m] = "m_check"
    /\ IF IsXrayRunning
       THEN /\ pc' = [pc EXCEPT ![m] = "m_select"]
            /\ force' = force
       ELSE /\ pc' = [pc EXCEPT ![m] = "r_lock"]
            /\ force' = [force EXCEPT ![m] = TRUE]
    /\ UNCHANGED <<variant, p, pState, pConfig, orphans, lock, stopChan, store, xrayConfig, ret, stopOK>>

\* --------------------------------------------------------- environment
\* The child process of the current handle dies on its own.
Crash ==
    /\ UNCHANGED <<flagVars, filterVars, trafficVars, warpVars>>
    /\ IsXrayRunning
    /\ pState' = "crashed"
    /\ UNCHANGED <<variant, p, pConfig, orphans, lock, stopChan, store, pc, force, xrayConfig, ret, stopOK>>

\* The still-running children of discarded handles have all died.
OrphanExit ==
    /\ UNCHANGED <<flagVars, filterVars, trafficVars, warpVars>>
    /\ orphans
    /\ orphans' = FALSE
    /\ UNCHANGED <<variant, p, pState, pConfig, lock, stopChan, store, pc, force, xrayConfig, ret, stopOK>>

\* A request handler changes the template or a rule.
ChangeStore(s) ==
    /\ UNCHANGED <<flagVars, filterVars, trafficVars, warpVars>>
    /\ s \in Stores /\ s # store
    /\ store' = s
    /\ UNCHANGED <<variant, p, pState, pConfig, orphans, lock, stopChan, pc, force, xrayConfig, ret, stopOK>>

SupNext ==
    \/ \E t \in Callers, f \in BOOLEAN : CallRestart(t, f)
    \/ \E t \in Callers : CallStop(t)
    \/ \E t \in Threads : RestartEnter(t)
    \/ \E t \in Threads, o \in StopOutcomes : RestartCheck(t, o)
    \/ \E t \in Threads, ok \in BOOLEAN : RestartStart(t, ok)
    \/ \E t \in Callers : StopLock(t)
    \/ \E t \in Callers, o \in StopOutcomes : StopBody(t, o)
    \/ \E m \in Monitors : MonitorSelect(m)
    \/ \E m \in Monitors : MonitorCheck(m)
    \/ Crash
    \/ OrphanExit
    \/ \E s \in Stores : ChangeStore(s)

\* The other components at rest.
FlagIdle ==
    /\ isNeedXrayRestart = FALSE /\ marks = 0 /\ consumed = 0 /\ flagOps = 0
    /\ lastConsume = "none"
NoSynthOut == [kind |-> "none", inbounds |-> <<>>, outbounds |-> <<>>]
FilterIdle ==
    /\ clients = <<>> /\ clientStats = <<>>
    /\ filtered = [ok |-> TRUE, out |-> <<>>] /\ filterPc = "input"
    /\ synth = [rules |-> <<>>, out |-> NoSynthOut, pc |-> "input"]

\* No traffic call made yet.
NoOutbound ==
    [table |-> [t \in {} |-> 0], pc |-> "idle", traffics |-> <<>>, last |-> "none"]
TrafficIdle ==
    traffic = [xrayAPI |-> "closed", rpcs |-> FALSE, ret |-> "none",
               outbound |-> NoOutbound]

\* A zero-value WarpService and an empty "warp" setting.
Bad == "#bad"
NoBody == [json |-> FALSE, id |-> Bad, token |-> Bad, account |-> Bad, license |-> Bad]
NoResp == [status |-> 0, body |-> NoBody]
NoOp == [name |-> "none", arg |-> "-"]
NoMap == [access_token |-> "", device_id |-> "", license_key |-> "", private_key |-> ""]
EmptyDoc == [kind |-> "empty", map |-> NoMap]
NoResult == [kind |-> "none", data |-> EmptyDoc]
NoCall ==
    [op |-> NoOp, pc |-> "idle", resp |-> NoResp, cancelled |-> FALSE,
     result |-> NoResult]
\* A context without a deadline (context.Background() of http.NewRequest).
NoDeadline == -1
NoRetry ==
    [i |-> 0, attempts |-> 0, backoff |-> 0, jitter |-> 0, lastErr |-> 0,
     ctxLeft |-> NoDeadline]
WarpIdle ==
    /\ warpSvc = [rev |-> "warp_1", maxRetries |-> 0] /\ warp = EmptyDoc
    /\ wCall = NoCall /\ retry = NoRetry

Init == SupInit /\ FlagIdle /\ FilterIdle /\ TrafficIdle /\ WarpIdle
Next == SupNext
Spec == Init /\ [][Next]_vars

\* -------------------------------------------- supervisor under fairness
\* The part_001 revision with goroutines that keep running: every thread
\* that can take a step eventually takes it (the Go scheduler runs every
\* runnable goroutine, and sync.Mutex hands the lock to a starving waiter),
\* the template parses, and p.Start() and p.Stop() succeed.  Callers and the
\* environment are under no obligation to act.
ThreadStep(t) ==
    \/ RestartEnter(t)
    \/ RestartCheck(t, "ok")
    \/ RestartStart(t, TRUE)
    \/ StopLock(t)
    \/ StopBody(t, "ok")
    \/ MonitorSelect(t)
    \/ MonitorCheck(t)

FairInit == Init /\ variant = "part_001"
FairNext ==
    \/ \E t \in Callers, f \in BOOLEAN : CallRestart(t, f)
    \/ \E t \in Callers : CallStop(t)
    \/ \E t \in Threads : ThreadStep(t)
    \/ Crash
    \/ \E s \in Stores : s.template = "ok" /\ ChangeStore(s)
FairSpec ==
    FairInit /\ [][FairNext]_vars /\ \A t \in Threads : SF_vars(ThreadStep(t))

\* ------------------------------------------------------- restart flag
\* Number of flag operations in one behaviour.
MaxFlagOps == 8

\* A compare-and-swap that tests but does not store.
CompareAndSwapNoStore(v, old, new) == [swapped |-> v = old, value |-> v]

\* atomic.Bool.CompareAndSwap(old, new): one indivisible step.
CompareAndSwap(v, old, new) ==
    [swapped |-> v = old, value |-> IF v = old THEN new ELSE v]

\* isNeedXrayRestart.Store(true)
SetToNeedRestart ==
    /\ flagOps < MaxFlagOps
    /\ isNeedXrayRestart' = TRUE
    /\ marks' = marks + 1
    /\ flagOps' = flagOps + 1
    /\ UNCHANGED <<consumed, lastConsume, supVars, filterVars, trafficVars, warpVars>>

\* return isNeedXrayRestart.CompareAndSwap(true, false)
IsNeedRestartAndSetFalse ==
    /\ flagOps < MaxFlagOps
    /\ LET r == CompareAndSwap(isNeedXrayRestart, TRUE, FALSE) IN
       /\ isNeedXrayRestart' = r.value
       /\ lastConsume' = IF r.swapped THEN "true" ELSE "false"
       /\ consumed' = IF r.swapped THEN consumed + 1 ELSE consumed
    /\ flagOps' = flagOps + 1
    /\ UNCHANGED <<marks, supVars, filterVars, trafficVars, warpVars>>

\* The supervisor at rest (the flag code is the same in both revisions).
SupIdle == SupInit /\ store = [template |-> "ok", ruleEnable |-> TRUE]

FlagInit == SupIdle /\ FlagIdle /\ FilterIdle /\ TrafficIdle /\ WarpIdle
FlagNext == SetToNeedRestart \/ IsNeedRestartAndSetFalse
FlagSpec == FlagInit /\ [][FlagNext]_vars

\* ------------------------------------------------------- client filter
\* Longest client list and longest ClientStats list of a rule.
MaxClients == 3
MaxStats == 2

Emails == {"a@x", "b@x", "c@x"}
\* A client entry that is a setting map: its email, its own "enable" setting
\* ("unset" when the key is absent), its flow, and whether it carries keys
\* other than email, id, password, flow and method.
ClientMap(e, en) ==
    [isMap |-> TRUE, email |-> e, enable |-> en,
     flow |-> "xtls-rprx-vision-udp443", extra |-> TRUE]
\* A client entry that is not a setting map.
NotAMap ==
    [isMap |-> FALSE, email |-> "-", enable |-> "unset", flow |-> "-", extra |-> FALSE]
ClientEntries == {ClientMap(e, en) : e \in Emails, en \in {"unset", "false"}} \cup {NotAMap}
\* ClientTraffic rows: Email and Enable.
StatEntries == [email : Emails, enable : BOOLEAN]

SeqsUpTo(S, n) == UNION {[1..k -> S] : k \in 0..n}

\* A minimization that keeps the other keys.
MinimizeKeepExtra(c) ==
    [c EXCEPT !.enable = "unset",
              !.flow = IF @ = "xtls-rprx-vision-udp443" THEN "xtls-rprx-vision" ELSE @]

\* The minimized record: only email, id, password, flow and method stay (the
\* "enable" key goes with the other keys), the flow alias is normalized.
Minimize(c) ==
    [c EXCEPT !.enable = "unset", !.extra = FALSE,
              !.flow = IF @ = "xtls-rprx-vision-udp443" THEN "xtls-rprx-vision" ELSE @]

\* RemoveIndex(s, index) == append(s[:index], s[index+1:]...) on the slice
\* arr[0:n] (arr is the backing array, index is 0-based): out of range slicing
\* panics; otherwise the elements after index move one place down in the
\* backing array and the slice gets one shorter.
RemoveIndex(arr, n, index) ==
    IF index < 0 \/ index > Len(arr) \/ index + 1 > n
    THEN [ok |-> FALSE, arr |-> arr, len |-> n]
    ELSE [ok |-> TRUE,
          arr |-> [k \in 1..Len(arr) |->
                     IF k - 1 >= index /\ k - 1 <= n - 2 THEN arr[k + 1] ELSE arr[k]],
          len |-> n - 1]

\* part_001, inner loop: for index, client := range clients { ... } for one
\* ClientTraffic row.  The range runs over the slice as it was when the loop
\* began (rlen entries) and reads the backing array as it is now; st holds the
\* backing array, the length of clients and indexDecrease.
RECURSIVE RemoveForStat(_, _, _, _)
RemoveForStat(st, stat, index, rlen) ==
    IF ~st.ok \/ index >= rlen THEN st
    ELSE LET c == st.arr[index + 1] IN
         IF ~c.isMap THEN [st EXCEPT !.ok = FALSE]
         ELSE IF c.email = stat.email /\ ~stat.enable
         THEN LET r == RemoveIndex(st.arr, st.len, index - st.dec) IN
              IF ~r.ok THEN [st EXCEPT !.ok = FALSE]
              ELSE RemoveForStat([ok |-> TRUE, arr |-> r.arr, len |-> r.len,
                                  dec |-> st.dec + 1], stat, index + 1, rlen)
         ELSE RemoveForStat(st, stat, index + 1, rlen)

\* part_001, outer loop: for _, clientTraffic := range clientStats.
RECURSIVE RemoveDisabled(_, _, _)
RemoveDisabled(st, stats, j) ==
    IF ~st.ok \/ j > Len(stats) THEN st
    ELSE RemoveDisabled(RemoveForStat(st, stats[j], 0, st.len), stats, j + 1)

\* part_001, second loop: drop the clients whose own enable is false, minimize
\* the others; an entry that is not a map panics.
RECURSIVE ClearClients(_, _, _, _)
ClearClients(arr, n, k, acc) ==
    IF k > n THEN [ok |-> TRUE, out |-> acc]
    ELSE IF ~arr[k].isMap THEN [ok |-> FALSE, out |-> <<>>]
    ELSE IF arr[k].enable = "false" THEN ClearClients(arr, n, k + 1, acc)
    ELSE ClearClients(arr, n, k + 1, Append(acc, Minimize(arr[k])))

\* part_001: the client loops of GetXrayConfig.
FilterClients001(cl, stats) ==
    LET st == RemoveDisabled([ok |-> TRUE, arr |-> cl, len |-> Len(cl), dec |-> 0],
                             stats, 1)
    IN IF ~st.ok THEN [ok |-> FALSE, out |-> <<>>]
       ELSE ClearClients(st.arr, st.len, 1, <<>>)

\* part_000: filterActiveClients.  Entries that are not maps and clients whose
\* own enable is false are skipped, the others are minimized and kept; the loop
\* over clientStats only deletes from clientEmailSet, which is not read again.
RECURSIVE filterActiveClients(_, _, _, _)
filterActiveClients(cl, stats, k, acc) ==
    IF k > Len(cl) THEN [ok |-> TRUE, out |-> acc]
    ELSE IF ~cl[k].isMap \/ cl[k].enable = "false"
    THEN filterActiveClients(cl, stats, k + 1, acc)
    ELSE filterActiveClients(cl, stats, k + 1, Append(acc, Minimize(cl[k])))

FilterClients(v, cl, stats) ==
    IF v = "part_000" THEN filterActiveClients(cl, stats, 1, <<>>)
    ELSE FilterClients001(cl, stats)

FilterInit ==
    /\ SupIdle /\ FlagIdle /\ TrafficIdle /\ WarpIdle
    /\ clients \in SeqsUpTo(ClientEntries, MaxClients)
    /\ clientStats \in SeqsUpTo(StatEntries, MaxStats)
    /\ filtered = [ok |-> TRUE, out |-> <<>>]
    /\ filterPc = "input"
    /\ synth = [rules |-> <<>>, out |-> NoSynthOut, pc |-> "input"]

\* The rule's client list goes through the filter.
ApplyFilter ==
    /\ filterPc = "input"
    /\ filtered' = FilterClients(variant, clients, clientStats)
    /\ filterPc' = "done"
    /\ UNCHANGED <<clients, clientStats, synth, supVars, flagVars, trafficVars, warpVars>>

FilterNext == ApplyFilter
FilterSpec == FilterInit /\ [][FilterNext]_vars

\* The filter on the clients of one email with every own "enable" setting
\* (absent, false, true) and flow (the alias, another flow, none), with or
\* without other keys; the lists are one entry shorter than in FilterSpec.
FlowEntries ==
    {[ClientMap("a@x", en) EXCEPT !.flow = fl, !.extra = ex] :
        en \in {"unset", "false", "true"},
        fl \in {"xtls-rprx-vision-udp443", "xtls-rprx-vision", ""},
        ex \in BOOLEAN}
MinimizeInit ==
    /\ SupIdle /\ FlagIdle /\ TrafficIdle /\ WarpIdle
    /\ clients \in SeqsUpTo(FlowEntries, MaxClients - 1)
    /\ clientStats \in SeqsUpTo([email : {"a@x"}, enable : BOOLEAN], MaxStats - 1)
    /\ filtered = [ok |-> TRUE, out |-> <<>>]
    /\ filterPc = "input"
    /\ synth = [rules |-> <<>>, out |-> NoSynthOut, pc |-> "input"]
MinimizeSpec == MinimizeInit /\ [][FilterNext]_vars

\* ------------------------------------------------------- stats collector
\* A GetXrayTraffic without the running test.
GetXrayTrafficNoTest(rpcOK) ==
    /\ traffic' = [traffic EXCEPT
                     !.xrayAPI = IF variant = "part_000" THEN "closed" ELSE "open",
                     !.rpcs = TRUE,
                     !.ret = IF rpcOK THEN "ok" ELSE "err_rpc"]
    /\ UNCHANGED <<supVars, flagVars, filterVars, warpVars>>

\* GetXrayTraffic: not running is an error; otherwise xrayAPI.Init(apiPort),
\* GetTraffic(true), and (part_000 only) the deferred xrayAPI.Close().
GetXrayTraffic(rpcOK) ==
    /\ IF ~IsXrayRunning
       THEN traffic' = [traffic EXCEPT !.rpcs = FALSE, !.ret = "err_not_running"]
       ELSE traffic' = [traffic EXCEPT
                          !.xrayAPI = IF variant = "part_000" THEN "closed" ELSE "open",
                          !.rpcs = TRUE,
                          !.ret = IF rpcOK THEN "ok" ELSE "err_rpc"]
    /\ UNCHANGED <<supVars, flagVars, filterVars, warpVars>>

\* The supervisor driven by the request handler and its monitors, with the
\* traffic job polling; the store does not change.
TrafficInit == SupIdle /\ FlagIdle /\ FilterIdle /\ TrafficIdle /\ WarpIdle
TrafficNext ==
    \/ \E f \in BOOLEAN : CallRestart(Handler, f)
    \/ CallStop(Handler)
    \/ \E t \in Threads : RestartEnter(t)
    \/ \E t \in Threads, o \in StopOutcomes : RestartCheck(t, o)
    \/ \E t \in Threads, ok \in BOOLEAN : RestartStart(t, ok)
    \/ StopLock(Handler)
    \/ \E o \in StopOutcomes : StopBody(Handler, o)
    \/ \E m \in Monitors : MonitorSelect(m)
    \/ \E m \in Monitors : MonitorCheck(m)
    \/ Crash
    \/ OrphanExit
    \/ \E ok \in BOOLEAN : GetXrayTraffic(ok)
TrafficSpec == TrafficInit /\ [][TrafficNext]_vars

\* The supervisor driven by the request handler alone and its monitors, with
\* the settings changing underneath (no poller, no traffic job).
HandlerNext ==
    \/ \E f \in BOOLEAN : CallRestart(Handler, f)
    \/ CallStop(Handler)
    \/ \E t \in Threads : RestartEnter(t)
    \/ \E t \in Threads, o \in StopOutcomes : RestartCheck(t, o)
    \/ \E t \in Threads, ok \in BOOLEAN : RestartStart(t, ok)
    \/ StopLock(Handler)
    \/ \E o \in StopOutcomes : StopBody(Handler, o)
    \/ \E m \in Monitors : MonitorSelect(m)
    \/ \E m \in Monitors : MonitorCheck(m)
    \/ Crash
    \/ OrphanExit
    \/ \E st \in Stores : ChangeStore(st)
HandlerSpec == Init /\ [][HandlerNext]_vars

\* -------------------------------------------------- registration client
\* warp.go holds two revisions of WarpService: "warp_1" (lines 1-279) and
\* "warp_2" (lines 281-463).
WarpRevs == {"warp_1", "warp_2"}
\* Largest configured WarpService.maxRetries.
MaxRetries == 2
\* if s.maxRetries == 0 { s.maxRetries = 5 }
DefaultRetries == 5
\* (1<<i)*500 milliseconds
BaseDelay == 500
\* context.WithTimeout(req.Context(), 60*time.Second) and the Timeout of the
\* http.Client of warp_1, in milliseconds.
AttemptTimeout == 60000
\* The Timeout of the http.Client of warp_2, in milliseconds.
ClientTimeout == 10000

\* A text with a double quote is written as it is by fmt.Sprintf("%s") and
\* escaped by json.MarshalIndent.
Quoted == {"L\"2"}
\* JSON documents of the "warp" setting: an object of string values, or a
\* text that json.Unmarshal rejects (the empty text, or a broken object).
ObjectDoc(m) == [kind |-> "object", map |-> m]
InvalidDoc(m) == [kind |-> "invalid", map |-> m]

\* json.Unmarshal([]byte(warp), &warpData) into a map[string]string.
Unmarshal(doc) ==
    IF doc.kind = "object" THEN [ok |-> TRUE, map |-> doc.map]
    ELSE [ok |-> FALSE, map |-> NoMap]

\* json.MarshalIndent(warpData, "", "  "): every value is escaped.
MarshalIndent(m) == ObjectDoc(m)

\* fmt.Sprintf of the four values into the object text, without escaping: a
\* value with a double quote breaks the object.
SprintfWarpData(token, deviceId, license, secretKey) ==
    LET m == [access_token |-> token, device_id |-> deviceId,
              license_key |-> license, private_key |-> secretKey]
    IN IF {token, deviceId, license, secretKey} \cap Quoted # {}
       THEN InvalidDoc(m) ELSE ObjectDoc(m)

\* Response bodies: not JSON, or a JSON object whose id, token, account and
\* account.license are either a string (a map for account) or Bad (missing
\* or of another type).
Bodies ==
    {NoBody} \cup [json : {TRUE}, id : {"D", Bad}, token : {"T", Bad},
                   account : {"map", Bad}, license : {"L0", "L\"2", Bad}]
Responses == [status : {200, 403, 503}, body : Bodies]
\* client.Do(req) returns a transport error (err != nil, written as the
\* response of status 0) or a response of any status.
TransportError == NoResp
Outcomes == {TransportError} \cup Responses

Ops ==
    {[name |-> "register", arg |-> "K"], [name |-> "refresh", arg |-> "-"]}
      \cup [name : {"setLicense"}, arg : {"L1", "L\"2"}]

\* 1 << n
RECURSIVE Shl1(_)
Shl1(n) == IF n = 0 THEN 1 ELSE 2 * Shl1(n - 1)

\* rand.Int63n(int64(backoff / 2)): some values of [0, backoff/2).
JitterChoices(b) == {j \in {0, BaseDelay, BaseDelay + 1, (b \div 2) - 1} : j < b \div 2}

Min(a, b) == IF a <= b THEN a ELSE b
Max(a, b) == IF a >= b THEN a ELSE b

\* context.WithTimeout(parent, d): the milliseconds left to the deadline of
\* the new context, the earlier of the parent's deadline and now + d.
WithTimeout(parentLeft, d) ==
    IF parentLeft = NoDeadline THEN d ELSE Min(parentLeft, d)

\* The time one client.Do may take: in warp_1 the deadline of the context made
\* for the attempt (the client's own Timeout is the same 60 s from the start
\* of the call to Do), in warp_2 the client's Timeout.
AttemptBudget ==
    IF warpSvc.rev = "warp_1" THEN WithTimeout(retry.ctxLeft, AttemptTimeout)
    ELSE ClientTimeout

\* Time passes for a context.
Elapse(left, ms) == IF left = NoDeadline THEN NoDeadline ELSE Max(0, left - ms)

\* The operation returns (the response is dropped with the other locals).
Returned(c, kind, data) ==
    [c EXCEPT !.pc = "idle", !.resp = NoResp, !.cancelled = FALSE,
              !.result = [kind |-> kind, data |-> data]]

\* GetWarpConfig / RegWarp / SetWarpLicense up to the first client.Do:
\* GetWarpConfig and SetWarpLicense read and parse the stored credential;
\* doWithRetry begins (warp_1 replaces a zero maxRetries by 5).
WarpCall(op) ==
    /\ wCall.pc = "idle"
    /\ retry' = NoRetry
    /\ IF op.name # "register" /\ ~Unmarshal(warp).ok
       THEN /\ wCall' = Returned([wCall EXCEPT !.op = op], "err_credential", EmptyDoc)
            /\ UNCHANGED warpSvc
       ELSE /\ wCall' = [NoCall EXCEPT !.op = op, !.pc = "loop"]
            /\ warpSvc' = [warpSvc EXCEPT !.maxRetries =
                              IF warpSvc.rev = "warp_1" /\ @ = 0 THEN DefaultRetries ELSE @]
    /\ UNCHANGED <<warp, supVars, flagVars, filterVars, trafficVars>>

\* One pass of the loop body up to the error test: (warp_1) ctx, cancel :=
\* context.WithTimeout(req.Context(), 60 s); defer cancel(); req =
\* req.WithContext(ctx); (both) resp, err = client.Do(req); if err == nil
\* { return resp, nil }.  The attempt answers at once or (slow) runs into its
\* deadline, which is a transport error; with no time left it fails at once.
\* On return the deferred cancel() calls of warp_1 run.
WarpAttempt(out, slow) ==
    /\ wCall.pc = "loop"
    /\ out \in Outcomes
    /\ (slow \/ AttemptBudget = 0) => out = TransportError
    /\ IF out = TransportError
       THEN /\ retry' = [retry EXCEPT
                           !.attempts = @ + 1,
                           !.lastErr = retry.attempts + 1,
                           !.ctxLeft = IF warpSvc.rev = "warp_1"
                                       THEN (IF slow THEN 0 ELSE AttemptBudget)
                                       ELSE NoDeadline]
            /\ wCall' = [wCall EXCEPT !.pc = "sleep"]
       ELSE /\ retry' = [retry EXCEPT !.attempts = @ + 1, !.ctxLeft = NoDeadline]
            /\ wCall' = [wCall EXCEPT !.pc = "parse", !.resp = out,
                                      !.cancelled = (warpSvc.rev = "warp_1")]
    /\ UNCHANGED <<warpSvc, warp, supVars, flagVars, filterVars, trafficVars>>

\* The rest of the loop body after a failed attempt: the sleep (warp_1 adds
\* the jitter), i++ and the loop test; when the loop ends doWithRetry returns
\* "all retry attempts failed" and the operation returns that error.
WarpSleep ==
    /\ wCall.pc = "sleep"
    /\ \E j \in (IF warpSvc.rev = "warp_1"
                 THEN JitterChoices(Shl1(retry.i) * BaseDelay) ELSE {0}) :
          retry' = [retry EXCEPT
                      !.backoff = Shl1(retry.i) * BaseDelay,
                      !.jitter = j,
                      !.i = @ + 1,
                      !.ctxLeft = IF retry.i + 1 <= warpSvc.maxRetries
                                  THEN Elapse(@, Shl1(retry.i) * BaseDelay + j)
                                  ELSE NoDeadline]
    /\ IF retry.i + 1 <= warpSvc.maxRetries
       THEN wCall' = [wCall EXCEPT !.pc = "loop"]
       ELSE wCall' = Returned(wCall, "err_all_failed", EmptyDoc)
    /\ UNCHANGED <<warpSvc, warp, supVars, flagVars, filterVars, trafficVars>>

\* warpData["license_key"] = license
MergeLicenseIntoToken(m, license) == [m EXCEPT !.access_token = license]
MergeLicense(m, license) == [m EXCEPT !.license_key = license]

\* RegWarp after doWithRetry returned a response: parse the body, take id,
\* token and account.license, store the credential.  warp_1 tests every type
\* assertion; warp_2 asserts id, token and account without a test (a panic on
\* a Bad value) and returns "", err with err == nil when license is Bad.
RegWarpParse(readOK) ==
    LET b == wCall.resp.body
        stored == SprintfWarpData(b.token, b.id, b.license, wCall.op.arg)
    IN
    IF ~readOK THEN wCall' = Returned(wCall, "err_body", EmptyDoc) /\ UNCHANGED warp
    ELSE IF ~b.json THEN wCall' = Returned(wCall, "err_json", EmptyDoc) /\ UNCHANGED warp
    ELSE IF warpSvc.rev = "warp_1"
    THEN IF Bad \in {b.id, b.token, b.account, b.license}
         THEN wCall' = Returned(wCall, "err_malformed", EmptyDoc) /\ UNCHANGED warp
         ELSE warp' = stored /\ wCall' = Returned(wCall, "ok", stored)
    ELSE IF Bad \in {b.id, b.token, b.account}
         THEN wCall' = Returned(wCall, "panic", EmptyDoc) /\ UNCHANGED warp
         ELSE IF b.license = Bad
         THEN wCall' = Returned(wCall, "ok", EmptyDoc) /\ UNCHANGED warp
         ELSE warp' = stored /\ wCall' = Returned(wCall, "ok", stored)

\* A SetWarpLicense that stores the credential before it reads the body.
SetWarpLicenseParseStoreFirst(readOK) ==
    LET stored == MarshalIndent(MergeLicense(Unmarshal(warp).map, wCall.op.arg))
    IN /\ warp' = stored
       /\ wCall' = IF readOK THEN Returned(wCall, "ok", stored)
                   ELSE Returned(wCall, "err_body", EmptyDoc)

\* SetWarpLicense after doWithRetry returned a response: the body is read and
\* dropped, the license is merged into the credential read at the start of the
\* call, the credential is stored and returned.
SetWarpLicenseParse(readOK) ==
    LET stored == MarshalIndent(MergeLicense(Unmarshal(warp).map, wCall.op.arg))
    IN IF ~readOK THEN wCall' = Returned(wCall, "err_body", EmptyDoc) /\ UNCHANGED warp
       ELSE warp' = stored /\ wCall' = Returned(wCall, "ok", stored)

\* GetWarpConfig after doWithRetry returned a response: the body is returned.
GetWarpConfigParse(readOK) ==
    /\ wCall' = Returned(wCall, IF readOK THEN "ok" ELSE "err_body", EmptyDoc)
    /\ UNCHANGED warp

\* Reading resp.Body: the network delivers the body or not, and a read under
\* a cancelled request context races with the transport tearing the
\* connection down (raceLost: the read gets "context canceled").
ReadBody(netOK, raceLost) == netOK /\ ~(wCall.cancelled /\ raceLost)

WarpParse(netOK, raceLost) ==
    /\ wCall.pc = "parse"
    /\ IF wCall.op.name = "register" THEN RegWarpParse(ReadBody(netOK, raceLost))
       ELSE IF wCall.op.name = "setLicense"
       THEN SetWarpLicenseParse(ReadBody(netOK, raceLost))
       ELSE GetWarpConfigParse(ReadBody(netOK, raceLost))
    /\ UNCHANGED <<warpSvc, retry, supVars, flagVars, filterVars, trafficVars>>

\* The settings store as a run of the program finds it: no credential, a
\* credential, or a text that is not a JSON object.
StoredCredential ==
    [access_token |-> "T", device_id |-> "D", license_key |-> "L0", private_key |-> "K"]
WarpInit ==
    /\ SupIdle /\ FlagIdle /\ FilterIdle /\ TrafficIdle
    /\ warpSvc \in [rev : WarpRevs, maxRetries : 0..MaxRetries]
    /\ warp \in {EmptyDoc, ObjectDoc(StoredCredential), InvalidDoc(StoredCredential)}
    /\ wCall = NoCall /\ retry = NoRetry
WarpNext ==
    \/ \E op \in Ops : WarpCall(op)
    \/ \E out \in Outcomes, slow \in BOOLEAN : WarpAttempt(out, slow)
    \/ WarpSleep
    \/ \E netOK, raceLost \in BOOLEAN : WarpParse(netOK, raceLost)
WarpSpec == WarpInit /\ [][WarpNext]_vars

\* -------------------------------------------- configuration synthesizer
\* Longest listing of routing rules.
MaxRules == 2

\* The settings blob of a rule: one that does not parse, an object without
\* "clients", and objects with a client list and the rule's ClientStats (one
\* disabled client, both clients disabled, an entry that is not a map).
RuleSettings ==
    LET S(parses, has, cl, st) ==
            [parses |-> parses, hasClients |-> has, clients |-> cl, stats |-> st]
        a == ClientMap("a@x", "unset")
        b == ClientMap("b@x", "unset")
        off(e) == [email |-> e, enable |-> FALSE]
    IN {S(FALSE, FALSE, <<>>, <<>>),
        S(TRUE, FALSE, <<>>, <<>>),
        S(TRUE, TRUE, <<a, b>>, <<off("a@x")>>),
        S(TRUE, TRUE, <<a, b>>, <<off("a@x"), off("b@x")>>),
        S(TRUE, TRUE, <<a, NotAMap>>, <<>>)}
\* inbound.StreamSettings: empty, an object, or a text that does not parse.
StreamSettings == {"", "object", "bad"}
\* The rows GetAllInbounds returns.
Rules == [enable : BOOLEAN, settings : RuleSettings, stream : StreamSettings]

\* The settings handed to GenXrayInboundConfig: the filtered client list of a
\* rule with "clients"; ok = FALSE when the client loops panic.
RuleClients(v, r) ==
    IF r.settings.hasClients
    THEN FilterClients(v, r.settings.clients, r.settings.stats)
    ELSE [ok |-> TRUE, out |-> <<>>]

\* part_000: optimizeStreamSettings keeps a text that does not parse.
\* part_001: the stream block of the loop; a text that does not parse skips
\* the rule (continue).
RuleStream(v, r) ==
    IF r.stream = "" THEN [skip |-> FALSE, stream |-> ""]
    ELSE IF r.stream = "bad"
    THEN [skip |-> v = "part_001", stream |-> "bad"]
    ELSE [skip |-> FALSE,
          stream |-> IF v = "part_000" THEN "stripped+sockopt" ELSE "stripped"]

\* xrayConfig.InboundConfigs = append(xrayConfig.InboundConfigs, *inboundConfig)
PrependInbound(acc, e) == <<e>> \o acc
AppendInbound(acc, e) == Append(acc, e)

\* The loop over the rules: a disabled rule and a rule whose settings do not
\* parse are passed over; a panic in the client loops ends the whole call.
RECURSIVE InboundLoop(_, _, _, _)
InboundLoop(v, rules, i, acc) ==
    IF i > Len(rules) THEN [ok |-> TRUE, inbounds |-> acc]
    ELSE LET r == rules[i]
             f == RuleClients(v, r)
             st == RuleStream(v, r)
         IN IF ~r.enable \/ ~r.settings.parses THEN InboundLoop(v, rules, i + 1, acc)
            ELSE IF ~f.ok THEN [ok |-> FALSE, inbounds |-> acc]
            ELSE IF st.skip THEN InboundLoop(v, rules, i + 1, acc)
            ELSE InboundLoop(v, rules, i + 1,
                             AppendInbound(acc, [rule |-> i, clients |-> f.out,
                                                 stream |-> st.stream]))

\* part_000: the outbound tagged "warp" is appended when GetWarp gives a text
\* that is not empty and parses.  part_001 does not read the credential.
WarpOutbound(v, w) ==
    IF v = "part_000" /\ w.kind # "empty" /\ Unmarshal(w).ok
    THEN <<[tag |-> "warp", settings |-> w.map]>>
    ELSE <<>>

\* GetXrayConfig with its rules and the credential.
SynthesizeConfig(v, st, w, rules) ==
    IF st.template = "bad" THEN [NoSynthOut EXCEPT !.kind = "err_template"]
    ELSE LET l == InboundLoop(v, rules, 1, <<>>) IN
         IF ~l.ok THEN [NoSynthOut EXCEPT !.kind = "panic"]
         ELSE [kind |-> "ok", inbounds |-> l.inbounds, outbounds |-> WarpOutbound(v, w)]

SynthInit ==
    /\ SupZero /\ store \in {s \in Stores : s.ruleEnable}
    /\ FlagIdle /\ TrafficIdle
    /\ clients = <<>> /\ clientStats = <<>>
    /\ filtered = [ok |-> TRUE, out |-> <<>>] /\ filterPc = "input"
    /\ warpSvc = [rev |-> "warp_1", maxRetries |-> 0]
    /\ wCall = NoCall /\ retry = NoRetry
    /\ warp \in {EmptyDoc, ObjectDoc(StoredCredential), InvalidDoc(StoredCredential)}
    /\ synth \in [rules : SeqsUpTo(Rules, MaxRules), out : {NoSynthOut}, pc : {"input"}]

Synthesize ==
    /\ synth.pc = "input"
    /\ synth' = [synth EXCEPT !.out = SynthesizeConfig(variant, store, warp, synth.rules),
                              !.pc = "done"]
    /\ UNCHANGED <<clients, clientStats, filtered, filterPc, supVars, flagVars,
                   trafficVars, warpVars>>

SynthNext == Synthesize
SynthSpec == SynthInit /\ [][SynthNext]_vars

\* ------------------------------------------------------ outbound traffic
\* Longest traffics list of one AddTraffic call, and the largest total a row
\* reaches.
MaxEntries == 2
MaxCount == 6

\* The rows of the OutboundTraffics table.
Tags == {"direct", "warp"}
\* xray.Traffic: Tag (of a row, or of no row), IsOutbound, Up, Down.
TrafficEntries ==
    [tag : Tags \cup {"gone"}, isOutbound : BOOLEAN, up : {2}, down : {1}]
      \cup {[tag |-> "direct", isOutbound |-> TRUE, up |-> 1, down |-> 0]}
ZeroRow == [up |-> 0, down |-> 0, total |-> 0]

\* tx.Model(&model.OutboundTraffics{}).Where("tag = ?", traffic.Tag).Updates(
\* up + ?, down + ?, total + ? + ?): the rows with the tag are updated.
Updates(tbl, e) ==
    [t \in DOMAIN tbl |->
        IF t = e.tag
        THEN [up |-> tbl[t].up + e.up, down |-> tbl[t].down + e.down,
              total |-> tbl[t].total + e.up + e.down]
        ELSE tbl[t]]

\* addOutboundTraffic: the entries flagged outbound are applied in order; the
\* update of entry failAt fails (0: none fails) and ends the loop.
RECURSIVE addOutboundTraffic(_, _, _, _)
addOutboundTraffic(tbl, traffics, k, failAt) ==
    IF k > Len(traffics) THEN [err |-> FALSE, tbl |-> tbl]
    ELSE IF ~traffics[k].isOutbound THEN addOutboundTraffic(tbl, traffics, k + 1, failAt)
    ELSE IF k = failAt THEN [err |-> TRUE, tbl |-> tbl]
    ELSE addOutboundTraffic(Updates(tbl, traffics[k]), traffics, k + 1, failAt)

\* A rollback that keeps what the transaction wrote.
RollbackKeep(before, after) == after
\* tx.Rollback(): the table is what it was at db.Begin().
Rollback(before, after) == before
\* tx.Commit()
Commit(before, after) == after

\* What a call adds to a row: the sum over the entries flagged outbound.
RECURSIVE Added(_, _, _)
Added(traffics, tag, k) ==
    IF k > Len(traffics) THEN ZeroRow
    ELSE LET rest == Added(traffics, tag, k + 1)
             e == traffics[k]
         IN IF e.isOutbound /\ e.tag = tag
            THEN [up |-> rest.up + e.up, down |-> rest.down + e.down,
                  total |-> rest.total + e.up + e.down]
            ELSE rest

\* AddTraffic is called with a traffics list (the rows stay within MaxCount).
CallAddTraffic(traffics) ==
    /\ traffic.outbound.pc = "idle"
    /\ \A t \in DOMAIN traffic.outbound.table :
          traffic.outbound.table[t].total + Added(traffics, t, 1).total <= MaxCount
    /\ traffic' = [traffic EXCEPT !.outbound.pc = "called",
                                  !.outbound.traffics = traffics]
    /\ UNCHANGED <<supVars, flagVars, filterVars, warpVars>>

\* AddTraffic: db.Begin(), addOutboundTraffic(tx, traffics), and the deferred
\* Rollback (err != nil) or Commit.
AddTraffic(failAt) ==
    /\ traffic.outbound.pc = "called"
    /\ failAt \in 0..Len(traffic.outbound.traffics)
    /\ LET before == traffic.outbound.table
           r == addOutboundTraffic(before, traffic.outbound.traffics, 1, failAt)
       IN traffic' = [traffic EXCEPT
                        !.outbound = [table |-> IF r.err THEN Rollback(before, r.tbl)
                                                ELSE Commit(before, r.tbl),
                                      pc |-> "idle",
                                      traffics |-> <<>>,
                                      last |-> IF r.err THEN "add_err" ELSE "add_nil"]]
    /\ UNCHANGED <<supVars, flagVars, filterVars, warpVars>>

\* ResetOutboundTraffic(tag): the rows with the tag, or every row for
\* "-alltags-", get up = down = total = 0; a failed update changes nothing
\* and is returned.
ResetOutboundTraffic(tag, dbOK) ==
    /\ traffic.outbound.pc = "idle"
    /\ traffic' = [traffic EXCEPT
                     !.outbound.table =
                        IF ~dbOK THEN @
                        ELSE [t \in DOMAIN @ |->
                                IF tag = "-alltags-" \/ t = tag THEN ZeroRow ELSE @[t]],
                     !.outbound.last = IF dbOK THEN "reset_nil" ELSE "reset_err"]
    /\ UNCHANGED <<supVars, flagVars, filterVars, warpVars>>

OutboundInit ==
    /\ SupIdle /\ FlagIdle /\ FilterIdle /\ WarpIdle
    /\ traffic = [xrayAPI |-> "closed", rpcs |-> FALSE, ret |-> "none",
                  outbound |-> [NoOutbound EXCEPT !.table = [t \in Tags |-> ZeroRow]]]
OutboundNext ==
    \/ \E traffics \in SeqsUpTo(TrafficEntries, MaxEntries) : CallAddTraffic(traffics)
    \/ \E failAt \in 0..MaxEntries : AddTraffic(failAt)
    \/ \E tag \in Tags \cup {"gone", "-alltags-"}, dbOK \in BOOLEAN :
          ResetOutboundTraffic(tag, dbOK)
OutboundSpec == OutboundInit /\ [][OutboundNext]_vars

\* ------------------------------------------------------------ claims
\* Threads between lock.Lock() and the deferred lock.Unlock().
InCritical(t) == pc[t] \in {"r_check", "r_start", "s_body"}
\* A lower bound on the number of running children the supervisor started.
LiveChildren == (IF pState = "running" THEN 1 ELSE 0) + (IF orphans THEN 1 ELSE 0)
ActiveMonitors == {m \in Monitors : pc[m] # "off"}

\* C1: RestartXray and StopXray are mutually exclusive: at most one thread is
\* between lock acquisition and release, and the handle p is replaced or its
\* process stopped only by a step of the thread inside that section.
C1_MutualExclusion ==
    /\ [](Cardinality({t \in Threads : InCritical(t)}) <= 1)
    /\ [][(p' # p \/ (pState = "running" /\ pState' = "stopped"))
            => \E t \in Threads : InCritical(t) /\ lock = t /\ pc'[t] # pc[t]]_vars

\* C1 witness: a caller is inside StopXray's section while a monitor that saw
\* the process dead waits for the lock in RestartXray.
C1_Witness ==
    \E t \in Callers, m \in Monitors : pc[t] = "s_body" /\ lock = t /\ pc[m] = "r_lock"

\* C2: at most one child process started by the supervisor is running.
C2_AtMostOneLiveChild == LiveChildren <= 1

\* C3: once a StopXray call has returned nil, no monitor starts a process.
C3_NoRestartAfterStop ==
    [][\A m \in Monitors :
          (pc[m] = "r_start" /\ p' # p /\ pState' = "running") => ~stopOK]_vars

\* C5: at most one monitor goroutine is active at any time.
C5_SingleMonitor == Cardinality(ActiveMonitors) <= 1

\* C6: no StopXray call fails by signaling an already signaled channel, and a
\* newly spawned monitor starts with an un-signaled channel.
C6_StopSignalPerInstance ==
    /\ [](ret # "panic")
    /\ [][\A m \in Monitors :
           (pc[m] = "off" /\ pc'[m] = "m_select") => stopChan' = "open"]_vars

\* C7: a RestartXray(false) that synthesized its config from a store whose
\* config equals the running one, with the process still running at the test,
\* stops nothing, starts nothing, keeps the handle and returns nil.
C7_SecondRestartNoop ==
    [][\A t \in Threads :
          ( /\ pc[t] = "r_check" /\ pc'[t] # "r_check"
            /\ ~force[t] /\ IsXrayRunning
            /\ ~GetXrayConfig(store).err
            /\ xrayConfig[t] = GetXrayConfig(store).config
            /\ pConfig = GetXrayConfig(store).config )
          => ( /\ p' = p /\ pState' = pState /\ pConfig' = pConfig
               /\ orphans' = orphans
               /\ t \in Callers => pc'[t] = "idle"
               /\ t = Handler => ret' = "nil_unchanged" )]_vars

\* C7 witness: after a restart had started the process, the request
\* handler's RestartXray(false) returned through the unchanged-configuration
\* branch, and the process still runs.
C7_Witness ==
    /\ pState = "running" /\ pConfig = GetXrayConfig(store).config
    /\ pc[Handler] = "idle" /\ ret = "nil_unchanged"

\* C8: IsNeedRestartAndSetFalse returns true at most once per SetToNeedRestart
\* and no mark is lost: a mark leaves the flag set, only a consume that returns
\* true clears it, a consume on a set flag returns true and clears it, and a
\* consume on a clear flag returns false and leaves it clear.
C8_FlagConsumedOnce ==
    /\ [](consumed <= marks /\ (isNeedXrayRestart => consumed < marks))
    /\ [][marks' = marks + 1 => isNeedXrayRestart']_vars
    /\ [][(flagOps' = flagOps + 1 /\ marks' = marks)
            => /\ ~isNeedXrayRestart'
               /\ lastConsume' = (IF isNeedXrayRestart THEN "true" ELSE "false")
               /\ consumed' = (IF isNeedXrayRestart THEN consumed + 1 ELSE consumed)]_vars

\* C8 witness: two marks were consumed by one true return, and a later consume
\* on the clear flag returned false.
C8_Witness ==
    marks = 2 /\ consumed = 1 /\ lastConsume = "false" /\ ~isNeedXrayRestart

\* Some ClientStats row with Enable = false names the email e.
DisabledByRecord(e) ==
    \E j \in DOMAIN clientStats : clientStats[j].email = e /\ ~clientStats[j].enable

\* C9: the filter output has no more entries than the input and holds no
\* client whose email matches a ClientRecord with enabled = false.
C9_FilterDropsDisabled ==
    (filterPc = "done" /\ filtered.ok)
    => /\ Len(filtered.out) <= Len(clients)
       /\ \A k \in DOMAIN filtered.out : ~DisabledByRecord(filtered.out[k].email)

\* C10: a client that is a setting map, whose own enable is not false and
\* that no ClientRecord with enabled = false names, is in the filter output.
C10_FailOpenKeep ==
    (filterPc = "done" /\ filtered.ok)
    => \A i \in DOMAIN clients :
          (clients[i].isMap /\ clients[i].enable # "false"
             /\ ~DisabledByRecord(clients[i].email))
          => \E k \in DOMAIN filtered.out : filtered.out[k].email = clients[i].email

\* The process p points to has died and no StopXray call is in progress; a
\* monitor goroutine can still be spawned within the model's bound.
CrashedNoStopPending ==
    /\ p # NoHandle /\ pState = "crashed"
    /\ pc[Handler] \notin {"s_lock", "s_body"}
    /\ FreeMonitors # {}

\* C4: whenever the running process has died and no StopXray is pending, the
\* supervisor is eventually running again on its own.
C4_CrashRecovery == CrashedNoStopPending ~> IsXrayRunning

\* The recovery does hold from the states in which stopChan was never closed.
CrashRecoveryWhileOpen ==
    (CrashedNoStopPending /\ stopChan = "open") ~> IsXrayRunning

\* The retry bound in force: the default when none is configured.
EffectiveRetries == IF warpSvc.maxRetries = 0 THEN DefaultRetries ELSE warpSvc.maxRetries

\* C11: when every attempt fails on the transport, the loop makes exactly
\* maxRetries+1 attempts (the default bound when none is configured), never
\* more, and then returns the all-attempts-failed error with the last error.
C11_RetriesExhausted ==
    /\ retry.attempts <= EffectiveRetries + 1
    /\ (wCall.pc = "idle" /\ wCall.result.kind = "err_all_failed")
       => (retry.attempts = EffectiveRetries + 1 /\ retry.lastErr = retry.attempts)

\* C12: the delay slept after failed attempt i is base*2^i plus a jitter no
\* larger than the base delay, and the delays of one call never decrease.
C12_BackoffDelays ==
    [][wCall.pc = "sleep"
         => /\ retry'.backoff = BaseDelay * Shl1(retry.i)
            /\ retry'.jitter <= BaseDelay
            /\ retry'.backoff + retry'.jitter >= retry.backoff + retry.jitter]_vars

\* C13: a response with a 5xx status received while attempts remain is not
\* returned to the caller: the loop goes on to its backoff sleep.
C13_ServerErrorRetried ==
    [][(wCall.pc = "loop" /\ retry'.attempts = retry.attempts + 1
          /\ wCall'.resp.status >= 500 /\ retry.i < warpSvc.maxRetries)
         => wCall'.pc = "sleep"]_vars

\* C14: a register response that is JSON but whose id, token, account or
\* account.license is missing or mistyped makes register return an error,
\* with no further HTTP attempt and the stored credential untouched.
C14_MalformedRegisterResponse ==
    [][(wCall.pc = "parse" /\ wCall.op.name = "register" /\ wCall.resp.body.json
          /\ Bad \in {wCall.resp.body.id, wCall.resp.body.token,
                      wCall.resp.body.account, wCall.resp.body.license})
         => /\ wCall'.pc = "idle" /\ wCall'.result.kind = "err_malformed"
            /\ retry'.attempts = retry.attempts
            /\ warp' = warp]_vars

NotRunning == p = NoHandle \/ pState # "running"

\* C16: with the supervisor not running, StopXray returns the not-running
\* error without closing stopChan, stopping anything or touching the handle,
\* and GetXrayTraffic returns the not-running error without opening the
\* connection or issuing the stats query.
C16_NotRunningNoEffect ==
    /\ [][(pc[Handler] = "s_body" /\ pc'[Handler] # "s_body" /\ NotRunning)
            => /\ ret' = "err_not_running"
               /\ stopChan' = stopChan /\ p' = p /\ pState' = pState
               /\ orphans' = orphans]_vars
    /\ [][(traffic' # traffic /\ NotRunning)
            => /\ traffic'.ret = "err_not_running"
               /\ ~traffic'.rpcs /\ traffic'.xrayAPI = traffic.xrayAPI]_vars

\* C16 witness: after a crash with every monitor gone, both StopXray and
\* GetXrayTraffic have returned the not-running error; nothing else changed.
C16_Witness ==
    /\ pState = "crashed" /\ ActiveMonitors = {}
    /\ pc[Handler] = "idle" /\ ret = "err_not_running"
    /\ traffic.ret = "err_not_running" /\ ~traffic.rpcs

\* C17: a restart whose template does not load or parse returns the error
\* with the handle, the process, its config and the monitors as they were.
C17_TemplateErrorAborts ==
    [][\A t \in Threads :
          (pc[t] = "r_lock" /\ pc'[t] # "r_lock" /\ store.template = "bad")
          => /\ p' = p /\ pState' = pState /\ pConfig' = pConfig
             /\ orphans' = orphans /\ stopChan' = stopChan
             /\ ActiveMonitors' = ActiveMonitors
             /\ pc'[t] \in {"idle", "m_select"}
             /\ t = Handler => ret' = "err_config"]_vars

\* C17 witness: the handler's restart returned the template error while the
\* process runs on with the config it was started with.
C17_Witness ==
    /\ pc[Handler] = "idle" /\ ret = "err_config"
    /\ store.template = "bad"
    /\ pState = "running" /\ pConfig # NoConfig

\* C18: when p.Start() fails, RestartXray returns that error, the supervisor
\* is not running, GetXrayErr gives the start error and no monitor is spawned.
C18_StartFailure ==
    [][\A t \in Threads :
          (pc[t] = "r_start" /\ pc'[t] # "r_start" /\ pState' # "running")
          => /\ t = Handler => ret' = "err_start"
             /\ NotRunning'
             /\ GetXrayErr' = "start_err"
             /\ FreeMonitors' = FreeMonitors]_vars

\* C18 witness: the handler's restart returned the start error, the supervisor
\* is not running and the error is there to be read.
C18_Witness ==
    /\ pc[Handler] = "idle" /\ ret = "err_start"
    /\ pState = "failed" /\ GetXrayErr = "start_err"

\* C19: when stopping the old process fails during a restart, the restart
\* goes on to construct and start the new process.
C19_StopFailureDoesNotBlock ==
    [][\A t \in Threads :
          (pc[t] = "r_check" /\ pc'[t] # "r_check" /\ ~NotRunning
             /\ ~RestartIsNoop(t) /\ pState' = "running")
          => pc'[t] = "r_start"]_vars

\* C20: the recovery restart a monitor performs after a crash keeps the crash
\* error readable through GetXrayErr.
C20_CrashErrorKept ==
    [][\A m \in Monitors :
          (pc[m] = "r_start" /\ pState = "crashed" /\ pState' = "running")
          => GetXrayErr' = GetXrayErr]_vars

\* C21: between calls of GetXrayTraffic no control connection is open: every
\* call that returned, with counters or with an RPC error, has released the
\* connection it opened.
C21_ConnectionScoped == traffic.xrayAPI = "closed"

\* C22: every attempt starts with its full timeout: at the head of the loop
\* the request's context carries no deadline nearer than the fresh timeout, so
\* the contexts of earlier attempts do not limit the attempt that begins.
C22_FreshTimeoutPerAttempt ==
    wCall.pc = "loop"
      => AttemptBudget = (IF warpSvc.rev = "warp_1" THEN AttemptTimeout ELSE ClientTimeout)

\* C30: a response handed to the caller of doWithRetry is not governed by a
\* context the loop has cancelled, so its body can still be read.
C30_ResponseContextLive == wCall.pc = "parse" => ~wCall.cancelled

\* C29: the stored credential changes only in the step in which register or
\* setLicense returns success: a call that returns an error (credential
\* missing or unparsable, retries exhausted, body read failure, malformed
\* response) leaves the store as it was before the call.
C29_ErrorLeavesStore ==
    [][warp' # warp => (wCall'.pc = "idle" /\ wCall'.result.kind = "ok")]_vars

\* C29 witness: with a credential stored, register got a malformed response
\* and returned an error, and the credential is still the stored one.
C29_Witness ==
    /\ wCall.pc = "idle" /\ wCall.op.name = "register"
    /\ wCall.result.kind = "err_malformed" /\ retry.attempts > 0
    /\ warp = ObjectDoc(StoredCredential)

\* The rules the loop of GetXrayConfig makes an entry for: enabled, settings
\* that parse, and (part_001) stream settings that are not unparsable.
Entered(i) ==
    /\ synth.rules[i].enable /\ synth.rules[i].settings.parses
    /\ ~(variant = "part_001" /\ synth.rules[i].stream = "bad")
InboundRules == [k \in 1..Len(synth.out.inbounds) |-> synth.out.inbounds[k].rule]

\* C23: with a template that parses, synthesis succeeds whatever the rules'
\* settings, client lists and stream settings are, and every enabled rule
\* whose settings and stream settings parse has its inbound entry.
C23_RuleFailureContained ==
    (synth.pc = "done" /\ store.template = "ok")
      => /\ synth.out.kind = "ok"
         /\ \A i \in 1..Len(synth.rules) :
               (synth.rules[i].enable /\ synth.rules[i].settings.parses
                  /\ synth.rules[i].stream # "bad")
                 => \E k \in 1..Len(InboundRules) : InboundRules[k] = i

C25_RegistrationOutbound ==
    /\ (synth.pc = "done" /\ synth.out.kind = "ok")
         => Len(SelectSeq(synth.out.outbounds, LAMBDA o : o.tag = "warp"))
              = (IF warp.kind = "object" THEN 1 ELSE 0)
    /\ (synth.pc = "done" /\ store.template = "ok" /\ synth.rules = <<>>)
         => synth.out.kind = "ok"

\* C26: no email occurs twice in the filtered client list, whatever the input
\* list is, duplicates included.
C26_IdentityOnce ==
    (filterPc = "done" /\ filtered.ok)
      => \A k1, k2 \in 1..Len(filtered.out) :
            k1 # k2 => filtered.out[k1].email # filtered.out[k2].email

\* C27: the filter completes on every input: no panic on an entry that is
\* not a map or on a record list that disables several clients.
C27_FilterTotal == filterPc = "done" => filtered.ok

\* C28: every client of the filtered list is a minimized input client whose
\* own enable is not false: no key besides email, id, password, flow and
\* method, the retained values are the input's, the flow alias replaced.
C28_MinimizedAndEntitled ==
    (filterPc = "done" /\ filtered.ok)
      => \A k \in 1..Len(filtered.out) :
            LET o == filtered.out[k] IN
            /\ o.isMap /\ ~o.extra /\ o.enable = "unset"
            /\ \E j \in 1..Len(clients) :
                  /\ clients[j].isMap /\ clients[j].enable # "false"
                  /\ o.email = clients[j].email
                  /\ o.flow = (IF clients[j].flow = "xtls-rprx-vision-udp443"
                               THEN "xtls-rprx-vision" ELSE clients[j].flow)

\* C28 witness: a client with the flow alias and other keys, next to one
\* whose own enable is false, went through the filter and one client is left.
C28_Witness ==
    /\ filterPc = "done" /\ filtered.ok /\ Len(filtered.out) = 1
    /\ Len(clients) = 2
    /\ clients[1].enable = "false"
    /\ clients[2].enable = "true" /\ clients[2].extra
    /\ clients[2].flow = "xtls-rprx-vision-udp443"

====
